---- MODULE Spec2Model ----
(***************************************************************************)
(* A model of admin_rewrite.py: the message generator of the repository.   *)
(*                                                                         *)
(* Python strings are TLA+ strings (sequences of characters); a character  *)
(* is a string of length one.  Two characters of the source are not ASCII  *)
(* and are written here with an ASCII character that occurs nowhere else   *)
(* in the modelled texts: the ellipsis U+2026 is "~" and the bullet U+2022 *)
(* is "*".  Both stand-ins are, like the originals, a single character     *)
(* that is not whitespace.                                                 *)
(***************************************************************************)
EXTENDS Integers, Sequences, FiniteSets, TLC

VARIABLES
    clampText,   \* clamp_x: the argument text
    clampMax,    \* clamp_x: the argument max_chars
    clampOut,    \* the results of successive clamp_x calls, each fed the last

    linesText,   \* clean_lines: the argument text
    linesN,      \* clean_lines: the argument n
    linesUnread, \* clean_lines: the raw lines the for loop never read
    linesPc,     \* clean_lines: "call" before the call, "returned" after
    linesRet,    \* clean_lines: the returned list

    pc,          \* main: the statement about to run
    cfgFile,     \* the configuration file: absent, or its JSON document
    args,        \* the parsed command line
    env,         \* os.environ
    OpenAI,      \* the name OpenAI after the guarded import: TRUE when imported
    today,       \* date.today()
    failure,     \* the exception that ended the run, "" when none did
    vars_,       \* compute_vars' result
    client,      \* build_output: the local `client`
    groups,      \* build_output: x_short, x_factual, x_cta, ig_caption, ig_story
    out,         \* main: the Output Record build_output returned
    calls,       \* the requests sent to the paraphrase service, in order
    printed,     \* TRUE once the preview is printed
    file,        \* the output file
    git,         \* the git commands run, in order, with their results
    pushResult   \* what main printed for the publish step

runVars == <<pc, cfgFile, args, env, OpenAI, today, failure, vars_, client,
             groups, out, calls, printed, file, git, pushResult>>

clampVars == <<clampText, clampMax, clampOut>>
linesVars == <<linesText, linesN, linesUnread, linesPc, linesRet>>
vars == <<clampVars, linesVars, runVars>>

-----------------------------------------------------------------------------
(* Bounds of the model *)

MaxClampLen == 5    \* longest text given to clamp_x
MaxLinesLen == 4    \* longest enumerated reply given to clean_lines
MaxLinesN == 3      \* largest n given to clean_lines
MaxYears == 2       \* years of start dates and clocks, from 2023
MaxCount == 2       \* largest requested variant count, besides 100
MaxRunCount == 2    \* largest requested variant count in a whole run

-----------------------------------------------------------------------------
(* Values that stand for nothing, and the idle state of each part *)

ClampIdle == clampText = "" /\ clampMax = 0 /\ clampOut = <<>>

LinesIdle ==
    /\ linesText = "" /\ linesN = 0 /\ linesUnread = <<>>
    /\ linesPc = "idle" /\ linesRet = <<>>

\* Python's None, and a dict with no key.
None == [none |-> TRUE]
EmptyDict == <<>>
NoGroups ==
    [x_short |-> <<>>, x_factual |-> <<>>, x_cta |-> <<>>,
     ig_caption |-> <<>>, ig_story |-> <<>>]

RunIdle ==
    /\ pc = "idle" /\ cfgFile = None /\ args = None /\ env = EmptyDict
    /\ OpenAI = FALSE /\ today = None /\ failure = "" /\ vars_ = None
    /\ client = "None" /\ groups = NoGroups /\ out = None /\ calls = <<>>
    /\ printed = FALSE /\ file = None /\ git = <<>> /\ pushResult = ""

-----------------------------------------------------------------------------
(* Characters and Python's str methods *)

ELLIPSIS == "~"
BULLET == "*"

Min(a, b) == IF a <= b THEN a ELSE b
Max(a, b) == IF a >= b THEN a ELSE b

Ch(s, i) == SubSeq(s, i, i)

\* The characters str.split(), str.strip() and str.rstrip() treat as whitespace
\* (those of them that occur in the modelled texts).
Whitespace == {" ", "\t", "\n"}

\* s[:k] of Python: a negative k counts from the end.
SliceTo(s, k) ==
    IF k >= 0 THEN SubSeq(s, 1, Min(k, Len(s)))
    ELSE SubSeq(s, 1, Max(0, Len(s) + k))

RECURSIVE LStripChars(_, _)
\* s.lstrip(chars)
LStripChars(s, chars) ==
    IF s # "" /\ Ch(s, 1) \in chars
    THEN LStripChars(SubSeq(s, 2, Len(s)), chars)
    ELSE s

RECURSIVE RStripChars(_, _)
\* s.rstrip(chars)
RStripChars(s, chars) ==
    IF s # "" /\ Ch(s, Len(s)) \in chars
    THEN RStripChars(SubSeq(s, 1, Len(s) - 1), chars)
    ELSE s

\* s.strip(chars)
StripChars(s, chars) == RStripChars(LStripChars(s, chars), chars)

\* s.strip(), s.rstrip()
Strip(s) == StripChars(s, Whitespace)
RStrip(s) == RStripChars(s, Whitespace)

\* The least index of s holding a character of chars, Len(s) + 1 when none.
FirstIn(s, chars) ==
    CHOOSE i \in 1..(Len(s) + 1) :
        /\ i = Len(s) + 1 \/ Ch(s, i) \in chars
        /\ \A j \in 1..(i - 1) : Ch(s, j) \notin chars

RECURSIVE SplitOn(_, _)
\* s.split(sep) for a one-character sep: field by field.
SplitOn(s, sep) ==
    LET i == FirstIn(s, {sep})
    IN  IF i > Len(s) THEN <<s>>
        ELSE <<SubSeq(s, 1, i - 1)>> \o SplitOn(SubSeq(s, i + 1, Len(s)), sep)

RECURSIVE SplitWords(_)
\* s.split(): the maximal runs of non-whitespace characters, word by word.
SplitWords(s) ==
    LET rest == LStripChars(s, Whitespace)
        i == FirstIn(rest, Whitespace)
    IN  IF rest = "" THEN <<>>
        ELSE <<SubSeq(rest, 1, i - 1)>> \o SplitWords(SubSeq(rest, i, Len(rest)))

RECURSIVE JoinRange(_, _, _, _)
\* sep.join(words[lo-1:hi]), by halves
JoinRange(sep, words, lo, hi) ==
    IF lo > hi THEN ""
    ELSE IF lo = hi THEN words[lo]
    ELSE LET mid == (lo + hi) \div 2
         IN  JoinRange(sep, words, lo, mid) \o sep \o JoinRange(sep, words, mid + 1, hi)

\* sep.join(words)
Join(sep, words) == JoinRange(sep, words, 1, Len(words))

\* needle in hay
Contains(hay, needle) ==
    \E i \in 1..(Len(hay) - Len(needle) + 1) :
        SubSeq(hay, i, i + Len(needle) - 1) = needle

RECURSIVE StringsUpTo(_, _)
\* Every string of at most n characters of the alphabet.
StringsUpTo(alphabet, n) ==
    IF n = 0 THEN {""}
    ELSE LET S == StringsUpTo(alphabet, n - 1)
         IN  S \cup {s \o c : s \in S, c \in alphabet}

-----------------------------------------------------------------------------
(* clamp_x *)

\* " ".join(text.split())
collapse_whitespace(text) == Join(" ", SplitWords(text))

\* The slip of truncating at max_chars instead of max_chars - 1.
clamp_x_off_by_one(text, max_chars) ==
    LET t == collapse_whitespace(text)
    IN  IF Len(t) <= max_chars THEN t
        ELSE RStrip(SliceTo(t, max_chars)) \o ELLIPSIS

\* The slip of truncating the raw text instead of the collapsed one.
clamp_x_raw_slice(text, max_chars) ==
    LET t == collapse_whitespace(text)
    IN  IF Len(t) <= max_chars THEN t
        ELSE RStrip(SliceTo(text, max_chars - 1)) \o ELLIPSIS

clamp_x(text, max_chars) ==
    LET t == collapse_whitespace(text)
    IN  IF Len(t) <= max_chars THEN t
        ELSE RStrip(SliceTo(t, max_chars - 1)) \o ELLIPSIS

-----------------------------------------------------------------------------
(* clean_lines *)

ListMarkers == {" ", "-", BULLET, "\t"}                      \* " -*\t"
EnumerationChars ==
    {"0", "1", "2", "3", "4", "5", "6", "7", "8", "9", ".", " ", ")", "("}

\* The slip of leaving the enumeration prefix in place.
clean_line_keep_enumeration(raw) ==
    LET s == Strip(raw)
    IN  IF s = "" THEN "" ELSE Strip(StripChars(s, ListMarkers))

\* What one pass of the loop body makes of a raw line; "" when the line is
\* skipped (`continue`) or is empty after stripping.
clean_line(raw) ==
    LET s == Strip(raw)
    IN  IF s = "" THEN ""
        ELSE Strip(LStripChars(StripChars(s, ListMarkers), EnumerationChars))

LinesAlphabet == {"a", "-", "1", " ", "\n"}
LinesExample == "1) Foo\n- Bar\n\n  Baz  "
LinesTexts ==
    StringsUpTo(LinesAlphabet, MaxLinesLen)
        \cup { LinesExample,
               "* a\n\t(2) b.\n3.\n- - -\nc -\nd\ne",
               "10. a b\n\n\n* 2)\n  (b)  \n-c\nd" }

RECURSIVE clean_lines_loop(_, _, _)
\* The for loop over text.split("\n"): raws are the raw lines not visited
\* yet, acc is the local list `lines`.  A line that is blank after strip()
\* takes the `continue`, which skips the test of the break as well.  The
\* result is `lines` when the loop ends, with the raw lines it never read.
clean_lines_loop(raws, acc, n) ==
    IF raws = <<>> THEN [lines |-> acc, unread |-> <<>>]
    ELSE LET raw == Head(raws)
             s == clean_line(raw)
             appended == IF s # "" THEN Append(acc, s) ELSE acc
         IN  IF Strip(raw) # "" /\ Len(appended) >= n
             THEN [lines |-> appended, unread |-> Tail(raws)]
             ELSE clean_lines_loop(Tail(raws), appended, n)

clean_lines(text, n) ==
    SliceTo(clean_lines_loop(SplitOn(text, "\n"), <<>>, n).lines, n)

-----------------------------------------------------------------------------
(* Dates: datetime.strptime(s, "%Y-%m-%d").date(), date.toordinal, strftime *)

Digits == "0123456789"
IsDigits(s) == s # "" /\ \A i \in 1..Len(s) : Contains(Digits, Ch(s, i))
DigitVal(c) == CHOOSE d \in 0..9 : Ch(Digits, d + 1) = c

RECURSIVE StrToInt(_)
\* int(s) of a string of digits
StrToInt(s) ==
    IF s = "" THEN 0
    ELSE 10 * StrToInt(SubSeq(s, 1, Len(s) - 1)) + DigitVal(Ch(s, Len(s)))

RECURSIVE NatToStr(_)
NatToStr(n) ==
    IF n < 10 THEN Ch(Digits, n + 1)
    ELSE NatToStr(n \div 10) \o Ch(Digits, (n % 10) + 1)

\* str(n)
IntToStr(n) == IF n < 0 THEN "-" \o NatToStr(-n) ELSE NatToStr(n)

RECURSIVE ZeroPad(_, _)
ZeroPad(s, width) == IF Len(s) >= width THEN s ELSE ZeroPad("0" \o s, width)

IsLeap(y) == y % 4 = 0 /\ (y % 100 # 0 \/ y % 400 = 0)
DaysInMonth(y, m) ==
    IF m = 2 THEN (IF IsLeap(y) THEN 29 ELSE 28)
    ELSE IF m \in {4, 6, 9, 11} THEN 30 ELSE 31

RECURSIVE DaysBeforeMonth(_, _)
DaysBeforeMonth(y, m) ==
    IF m = 1 THEN 0 ELSE DaysBeforeMonth(y, m - 1) + DaysInMonth(y, m - 1)

DaysBeforeYear(y) ==
    (y - 1) * 365 + ((y - 1) \div 4) - ((y - 1) \div 100) + ((y - 1) \div 400)

\* date.toordinal(): (today - start).days is the difference of two of these.
toordinal(d) ==
    DaysBeforeYear(d.year) + DaysBeforeMonth(d.year, d.month) + d.day

\* Whether strptime accepts s: a four-digit year, a month and a day of one
\* or two digits, separated by "-", naming a date of the calendar.
strptime_accepts(s) ==
    LET f == SplitOn(s, "-")
    IN  /\ Len(f) = 3
        /\ Len(f[1]) = 4 /\ IsDigits(f[1]) /\ StrToInt(f[1]) >= 1
        /\ Len(f[2]) \in {1, 2} /\ IsDigits(f[2]) /\ StrToInt(f[2]) \in 1..12
        /\ Len(f[3]) \in {1, 2} /\ IsDigits(f[3])
        /\ StrToInt(f[3]) \in 1..DaysInMonth(StrToInt(f[1]), StrToInt(f[2]))

parse_yyyy_mm_dd(s) ==
    LET f == SplitOn(s, "-")
    IN  [year |-> StrToInt(f[1]), month |-> StrToInt(f[2]), day |-> StrToInt(f[3])]

\* d.strftime("%Y-%m-%d")
strftime(d) ==
    ZeroPad(NatToStr(d.year), 4) \o "-" \o ZeroPad(NatToStr(d.month), 2)
        \o "-" \o ZeroPad(NatToStr(d.day), 2)

-----------------------------------------------------------------------------
(* format_int, compute_vars, fill *)

RECURSIVE GroupThousands(_)
GroupThousands(digits) ==
    IF Len(digits) <= 3 THEN digits
    ELSE GroupThousands(SubSeq(digits, 1, Len(digits) - 3)) \o ","
             \o SubSeq(digits, Len(digits) - 2, Len(digits))

\* f"{n:,}"
format_int(n) ==
    IF n < 0 THEN "-" \o GroupThousands(NatToStr(-n)) ELSE GroupThousands(NatToStr(n))

\* d.get(key, default)
Get(d, key, default) == IF key \in DOMAIN d THEN d[key] ELSE default

\* The slip of leaving out the clamp of a negative difference to zero.
elapsed_days_unclamped(start, today_) == toordinal(today_) - toordinal(start)

\* days = (today - start).days; if days < 0: days = 0
elapsed_days(start, today_) ==
    LET days == toordinal(today_) - toordinal(start)
    IN  IF days < 0 THEN 0 ELSE days

\* The exception compute_vars raises on cfg, "" when it returns.
compute_vars_raises(cfg) ==
    IF "start_date" \notin DOMAIN cfg THEN "KeyError: start_date"
    ELSE IF ~ strptime_accepts(cfg["start_date"]) THEN "ValueError: start_date"
    ELSE ""

compute_vars(cfg, today_) ==
    LET start == parse_yyyy_mm_dd(cfg["start_date"])
        days == elapsed_days(start, today_)
        killed == Get(cfg, "killed_estimate", 0)
    IN  [country |-> Get(cfg, "country", "Iran"),
         start_date |-> strftime(start),
         today |-> strftime(today_),
         days |-> days,
         days_phrase |-> IF days # 1 THEN IntToStr(days) \o " days" ELSE "1 day",
         killed_estimate |-> killed,
         killed_estimate_fmt |-> format_int(killed),
         injured_phrase |-> Get(cfg, "injured_phrase", "countless injured"),
         regime_terms |-> Get(cfg, "regime_terms", "the Islamic regime and the IRGC")]

\* A template is the sequence of its literal pieces and replacement fields,
\* a replacement field written with its braces: "{country}".
IsField(piece) == Len(piece) >= 2 /\ Ch(piece, 1) = "{"
FieldName(piece) == SubSeq(piece, 2, Len(piece) - 1)
IntFields == {"days", "killed_estimate"}

\* template.format(**vars_) raises KeyError for a field vars_ lacks.
fill_raises(template, v) ==
    \E i \in 1..Len(template) :
        IsField(template[i]) /\ FieldName(template[i]) \notin DOMAIN v

RECURSIVE fill(_, _)
fill(template, v) ==
    IF template = <<>> THEN ""
    ELSE LET piece == Head(template)
             text == IF ~ IsField(piece) THEN piece
                     ELSE IF FieldName(piece) \in IntFields
                          THEN IntToStr(v[FieldName(piece)])
                          ELSE v[FieldName(piece)]
         IN  text \o fill(Tail(template), v)

\* {**vars_, "hashtags": hashtags_ig}
WithHashtags(v, hashtags_ig) ==
    [k \in (DOMAIN v) \cup {"hashtags"} |->
        IF k = "hashtags" THEN hashtags_ig ELSE v[k]]

-----------------------------------------------------------------------------
(* Template library.  The apostrophe U+2019 and the dash U+2014 of the     *)
(* source are written "'" and "-".                                         *)

X_SHORT_TEMPLATES == <<
    <<"{country}", " is under an internet blackout again. Cutting connectivity enables concealment and impunity, and the world should not ignore it.">>,
    <<"Another internet blackout in ", "{country}", ": when information is cut, abuses can escalate unseen and accountability disappears.">>,
    <<"{country}", " has gone dark online again. Blackouts are used to block documentation and suppress civilian voices.">> >>

X_FACTUAL_TEMPLATES == <<
    <<"After ", "{days_phrase}", " of a digital blackout in ", "{country}", ", reports indicate over ", "{killed_estimate_fmt}", " killed and ", "{injured_phrase}", "; ", "{regime_terms}", " are using the shutdown to conceal violence.">>,
    <<"{country}", " has faced ", "{days_phrase}", " of internet blackout since ", "{start_date}", "; reports cite over ", "{killed_estimate_fmt}", " killed and ", "{injured_phrase}", " as ", "{regime_terms}", " restrict visibility.">>,
    <<"Internet access in ", "{country}", " has been restricted for ", "{days_phrase}", "; reports suggest over ", "{killed_estimate_fmt}", " killed and ", "{injured_phrase}", " while ", "{regime_terms}", " limit documentation.">> >>

X_CTA_TEMPLATES == <<
    <<"{country}", "'s internet blackout is a cover-up by ", "{regime_terms}", ". Reports cite over ", "{killed_estimate_fmt}", " killed after ", "{days_phrase}", ". Global leaders must act now.">>,
    <<"Silence enables violence: ", "{regime_terms}", " use blackouts in ", "{country}", " to conceal abuses. After ", "{days_phrase}", ", reports cite over ", "{killed_estimate_fmt}", " killed-urgent action is needed.">>,
    <<"A digital blackout in ", "{country}", " is erasing accountability. After ", "{days_phrase}", ", reports cite over ", "{killed_estimate_fmt}", " killed. This demands immediate international pressure.">> >>

IG_CAPTION_TEMPLATES == <<
    <<"{country}", " is facing an internet blackout while violence escalates.\n\nWhen access is cut, documentation stops and accountability disappears.\n\n", "{hashtags}">>,
    <<"Another internet shutdown in ", "{country}", " is keeping the world from seeing what is happening.\n\nSilence is being enforced to conceal violence.\n\n", "{hashtags}">>,
    <<"When ", "{country}", " goes dark online, the truth goes dark too.\n\nBlackouts protect abuses, not people.\n\n", "{hashtags}">> >>

IG_STORY_TEMPLATES == <<
    <<"Internet blackout in ", "{country}", "\n\n", "{days_phrase}", " offline\n\nSpeak up. Share.">>,
    <<"{country}", " is offline\n\nBlackouts hide violence\n\nDo not look away.">>,
    <<"No internet.\nNo transparency.\nNo accountability.">> >>

BIO_TEMPLATES == <<
    <<"Internet blackouts hide violence. Demand transparency.">>,
    <<"Stop digital blackouts. Demand accountability.">>,
    <<"Blackouts conceal abuses. Speak up for ", "{country}", ".">> >>

-----------------------------------------------------------------------------
(* get_client, ai_paraphrase_variants, build_output's helpers *)

\* The slip of testing the credential only, not the import.
get_client_ignoring_import(environ, imported) ==
    IF Get(environ, "OPENAI_API_KEY", "") = "" THEN "None" ELSE "OpenAI"

\* get_client(): "None", or "OpenAI" for a client object.  A variable that is
\* unset and one that is empty are both falsy.
get_client(environ, imported) ==
    IF Get(environ, "OPENAI_API_KEY", "") = "" THEN "None"
    ELSE IF ~ imported THEN "None"
    ELSE "OpenAI"

\* What ai_paraphrase_variants makes of the service's reply.
ai_paraphrase_variants(reply, n, max_chars, kind) ==
    LET cleaned == clean_lines(reply, n)
    IN  IF kind = "x"
        THEN [i \in 1..Len(cleaned) |-> clamp_x(cleaned[i], max_chars)]
        ELSE cleaned

\* The slip of appending the hashtag block to every candidate.
assemble_captions_always_append(candidates, hashtags_ig) ==
    [i \in 1..Len(candidates) |-> RStrip(candidates[i]) \o "\n\n" \o hashtags_ig]

\* [c if hashtags_ig in c else (c.rstrip() + "\n\n" + hashtags_ig) for c in ig_caption]
assemble_captions(candidates, hashtags_ig) ==
    [i \in 1..Len(candidates) |->
        IF Contains(candidates[i], hashtags_ig) THEN candidates[i]
        ELSE RStrip(candidates[i]) \o "\n\n" \o hashtags_ig]

RECURSIVE gen_loop(_, _, _, _)
\* The loop of gen_from_templates: it breaks once `count` are rendered,
\* testing after the append.
gen_loop(templates, acc, count, v) ==
    IF templates = <<>> THEN acc
    ELSE LET appended == Append(acc, fill(Head(templates), v))
         IN  IF Len(appended) >= count THEN appended
             ELSE gen_loop(Tail(templates), appended, count, v)

\* [fill(t, ...) for t in templates]
fill_all(templates, v) == [i \in 1..Len(templates) |-> fill(templates[i], v)]

\* The slip of rendering every template, whatever the count.
gen_from_templates_all(templates, count, v) == fill_all(templates, v)

gen_from_templates(templates, count, v) ==
    SliceTo(gen_loop(templates, <<>>, count, v), count)

\* The templates the loop of gen_from_templates renders before it breaks.
gen_rendered(templates, count) ==
    SubSeq(templates, 1, Min(Len(templates), Max(1, count)))

any_fill_raises(templates, v) ==
    \E i \in 1..Len(templates) : fill_raises(templates[i], v)

\* The slip of clamping the requested count from above only.
bio_count_no_minimum(n_ig) == Min(6, n_ig)

\* max(3, min(6, n_ig))
bio_count(n_ig) == Max(3, Min(6, n_ig))

Cfg == cfgFile.json
max_x == Get(Get(Cfg, "limits", EmptyDict), "x_max_chars", 190)
hashtags_x == Get(Get(Cfg, "hashtags", EmptyDict), "x", "")
hashtags_ig == Get(Get(Cfg, "hashtags", EmptyDict), "instagram", "")

-----------------------------------------------------------------------------
(* main *)

\* What the paraphrase service may do with a request: raise, or reply.
ServiceReplies ==
    { "1) Alpha beta gamma delta\n2. Beta #Iran\n\n- Gamma   \n* Delta\n5) Epsilon",
      "Only one line",
      "" }
ServiceOutcomes ==
    {[raised |-> TRUE, text |-> ""]}
        \cup {[raised |-> FALSE, text |-> r] : r \in ServiceReplies}

\* cfg = load_json(Path(args.config))
LoadConfig ==
    /\ pc = "load_json"
    /\ IF ~ cfgFile.exists
       THEN pc' = "exited" /\ failure' = "SystemExit: Missing required file"
       ELSE pc' = "compute_vars" /\ UNCHANGED failure
    /\ UNCHANGED <<cfgFile, args, env, OpenAI, today, vars_, client, groups,
                   out, calls, printed, file, git, pushResult>>
    /\ UNCHANGED <<clampVars, linesVars>>

\* vars_ = compute_vars(cfg)
ComputeVars ==
    /\ pc = "compute_vars"
    /\ IF compute_vars_raises(Cfg) # ""
       THEN /\ pc' = "raised"
            /\ failure' = compute_vars_raises(Cfg)
            /\ UNCHANGED vars_
       ELSE /\ pc' = "build_output"
            /\ vars_' = compute_vars(Cfg, today)
            /\ UNCHANGED failure
    /\ UNCHANGED <<cfgFile, args, env, OpenAI, today, client, groups,
                   out, calls, printed, file, git, pushResult>>
    /\ UNCHANGED <<clampVars, linesVars>>

\* build_output up to the X templates: client, x_short, x_factual, x_cta.
BuildTemplatesX ==
    /\ pc = "build_output"
    /\ LET c == IF args.ai THEN get_client(env, OpenAI) ELSE "None"
           raises ==
               \E ts \in {X_SHORT_TEMPLATES, X_FACTUAL_TEMPLATES, X_CTA_TEMPLATES} :
                   any_fill_raises(gen_rendered(ts, args.x_n), vars_)
           clamped(ts) ==
               LET g == gen_from_templates(ts, args.x_n, vars_)
               IN  [i \in 1..Len(g) |-> clamp_x(g[i], max_x)]
       IN  IF raises
           THEN /\ pc' = "raised"
                /\ failure' = "KeyError: template field"
                /\ UNCHANGED <<client, groups>>
           ELSE /\ client' = c
                /\ groups' = [groups EXCEPT
                                 !.x_short = clamped(X_SHORT_TEMPLATES),
                                 !.x_factual = clamped(X_FACTUAL_TEMPLATES),
                                 !.x_cta = clamped(X_CTA_TEMPLATES)]
                /\ pc' = IF c # "None" THEN "ai_x_short" ELSE "ig_templates"
                /\ UNCHANGED failure
    /\ UNCHANGED <<cfgFile, args, env, OpenAI, today, vars_,
                   out, calls, printed, file, git, pushResult>>
    /\ UNCHANGED <<clampVars, linesVars>>

\* The statement after the paraphrase of each group.
AfterParaphrase ==
    [x_short |-> "ai_x_factual", x_factual |-> "ai_x_cta", x_cta |-> "ig_templates",
     ig_caption |-> "ai_ig_story", ig_story |-> "bio"]
KindOf ==
    [x_short |-> "x", x_factual |-> "x", x_cta |-> "x",
     ig_caption |-> "instagram_caption", ig_story |-> "instagram_story"]
CountOf(g) == IF KindOf[g] = "x" THEN args.x_n ELSE args.ig_n

\* The slip of catching the service's exception and keeping the templates.
ServiceRaised_swallowed(g) ==
    /\ pc' = AfterParaphrase[g]
    /\ failure' = "ServiceCallFailure: " \o g
    /\ UNCHANGED groups

\* client.responses.create raises: nothing catches it, up to main's caller.
ServiceRaised(g) ==
    /\ pc' = "raised"
    /\ failure' = "ServiceCallFailure: " \o g
    /\ UNCHANGED groups

\* if <group>: <group> = ai_paraphrase_variants(client, <group>[0], n, max_x, kind)
\* and, for the caption, the hashtag rule.
Paraphrase(g) ==
    /\ pc = "ai_" \o g
    /\ IF groups[g] = <<>>
       THEN /\ pc' = AfterParaphrase[g]
            /\ UNCHANGED <<groups, calls, failure>>
       ELSE \E o \in ServiceOutcomes :
              /\ calls' = Append(calls,
                     [group |-> g, base_text |-> groups[g][1], n |-> CountOf(g),
                      max_chars |-> max_x, kind |-> KindOf[g], outcome |-> o])
              /\ IF o.raised
                 THEN ServiceRaised(g)
                 ELSE LET variants ==
                              ai_paraphrase_variants(o.text, CountOf(g), max_x, KindOf[g])
                      IN  /\ groups' = [groups EXCEPT ![g] =
                                 IF g = "ig_caption"
                                 THEN assemble_captions(variants, hashtags_ig)
                                 ELSE variants]
                          /\ pc' = AfterParaphrase[g]
                          /\ UNCHANGED failure
    /\ UNCHANGED <<cfgFile, args, env, OpenAI, today, vars_, client,
                   out, printed, file, git, pushResult>>
    /\ UNCHANGED <<clampVars, linesVars>>

\* ig_caption and ig_story from the templates.
BuildTemplatesIG ==
    /\ pc = "ig_templates"
    /\ LET withTags == WithHashtags(vars_, hashtags_ig)
       IN  IF \/ any_fill_raises(IG_CAPTION_TEMPLATES, withTags)
              \/ any_fill_raises(IG_STORY_TEMPLATES, vars_)
           THEN /\ pc' = "raised"
                /\ failure' = "KeyError: template field"
                /\ UNCHANGED groups
           ELSE /\ groups' = [groups EXCEPT
                    !.ig_caption = SliceTo(fill_all(IG_CAPTION_TEMPLATES, withTags), args.ig_n),
                    !.ig_story = SliceTo(fill_all(IG_STORY_TEMPLATES, vars_), args.ig_n)]
                /\ pc' = IF client # "None" THEN "ai_ig_caption" ELSE "bio"
                /\ UNCHANGED failure
    /\ UNCHANGED <<cfgFile, args, env, OpenAI, today, vars_, client,
                   out, calls, printed, file, git, pushResult>>
    /\ UNCHANGED <<clampVars, linesVars>>

\* The record build_output returns.
output_record(v, g, bio) ==
    [generated |-> [today |-> v.today, start_date |-> v.start_date,
                    days_since_start |-> v.days,
                    killed_estimate |-> v.killed_estimate],
     hashtags |-> [x |-> hashtags_x, instagram |-> hashtags_ig],
     messages |-> [x |-> [short |-> g.x_short, factual |-> g.x_factual, cta |-> g.x_cta],
                   instagram |-> [caption |-> g.ig_caption, story |-> g.ig_story],
                   bio |-> bio]]

\* bio, and the return of build_output to main.
BuildBioReturn ==
    /\ pc = "bio"
    /\ IF any_fill_raises(BIO_TEMPLATES, vars_)
       THEN /\ pc' = "raised"
            /\ failure' = "KeyError: template field"
            /\ UNCHANGED out
       ELSE /\ out' = output_record(vars_, groups,
                          SliceTo(fill_all(BIO_TEMPLATES, vars_), bio_count(args.ig_n)))
            /\ pc' = "print"
            /\ UNCHANGED failure
    /\ UNCHANGED <<cfgFile, args, env, OpenAI, today, vars_, client, groups,
                   calls, printed, file, git, pushResult>>
    /\ UNCHANGED <<clampVars, linesVars>>

\* print(json.dumps(out, ...))
PrintPreview ==
    /\ pc = "print"
    /\ printed' = TRUE
    /\ pc' = IF args.write THEN "write" ELSE "done"
    /\ UNCHANGED <<cfgFile, args, env, OpenAI, today, failure, vars_, client,
                   groups, out, calls, file, git, pushResult>>
    /\ UNCHANGED <<clampVars, linesVars>>

\* target.write_text(json.dumps(out, ...) + "\n")
WriteFile ==
    /\ pc = "write"
    /\ file' = [exists |-> TRUE, written |-> TRUE, data |-> out]
    /\ pc' = IF args.push THEN "git_add" ELSE "done"
    /\ UNCHANGED <<cfgFile, args, env, OpenAI, today, failure, vars_, client,
                   groups, out, calls, printed, git, pushResult>>
    /\ UNCHANGED <<clampVars, linesVars>>

-----------------------------------------------------------------------------
(* git_commit_and_push *)

UpperCase == "ABCDEFGHIJKLMNOPQRSTUVWXYZ"
LowerCase == "abcdefghijklmnopqrstuvwxyz"

LowerChar(c) ==
    LET at == {i \in 1..26 : Ch(UpperCase, i) = c}
    IN  IF at = {} THEN c ELSE Ch(LowerCase, CHOOSE i \in at : TRUE)

RECURSIVE LowerRange(_, _, _)
LowerRange(s, lo, hi) ==
    IF lo > hi THEN ""
    ELSE IF lo = hi THEN LowerChar(Ch(s, lo))
    ELSE LET mid == (lo + hi) \div 2
         IN  LowerRange(s, lo, mid) \o LowerRange(s, mid + 1, hi)

\* s.lower()
Lower(s) == LowerRange(s, 1, Len(s))

\* The slip of taking every non-zero exit of the commit for a failure.
commit_failed_on_any_nonzero(commit) == commit.returncode # 0

\* Whether the commit's result makes git_commit_and_push return False.
commit_failed(commit) ==
    /\ commit.returncode # 0
    /\ ~ Contains(Lower(commit.stdout \o "\n" \o commit.stderr), "nothing to commit")

\* What `git commit` may report.
CommitResults ==
    { [returncode |-> 0, stdout |-> "[main 1a2b3c4] Update messages", stderr |-> ""],
      [returncode |-> 1,
       stdout |-> "On branch main\nnothing to commit, working tree clean", stderr |-> ""],
      [returncode |-> 1, stdout |-> "", stderr |-> "Nothing to commit"],
      [returncode |-> 128, stdout |-> "",
       stderr |-> "fatal: unable to auto-detect email address"] }

\* subprocess.run(["git", "add", *files], check=True): a non-zero exit raises
\* CalledProcessError, the handler returns False and main reports it.
GitAdd ==
    /\ pc = "git_add"
    /\ \E rc \in {0, 128} :
          /\ git' = Append(git, [cmd |-> "add", returncode |-> rc])
          /\ IF rc # 0
             THEN pc' = "done" /\ pushResult' = "PUSH FAILED"
             ELSE pc' = "git_commit" /\ UNCHANGED pushResult
    /\ UNCHANGED <<cfgFile, args, env, OpenAI, today, failure, vars_, client,
                   groups, out, calls, printed, file>>
    /\ UNCHANGED <<clampVars, linesVars>>

\* commit = subprocess.run(["git", "commit", "-m", message], ...)
GitCommit ==
    /\ pc = "git_commit"
    /\ \E commit \in CommitResults :
          /\ git' = Append(git, [cmd |-> "commit", returncode |-> commit.returncode,
                                 stdout |-> commit.stdout, stderr |-> commit.stderr])
          /\ IF commit_failed(commit)
             THEN pc' = "done" /\ pushResult' = "PUSH FAILED"
             ELSE pc' = "git_push" /\ UNCHANGED pushResult
    /\ UNCHANGED <<cfgFile, args, env, OpenAI, today, failure, vars_, client,
                   groups, out, calls, printed, file>>
    /\ UNCHANGED <<clampVars, linesVars>>

\* push = subprocess.run(["git", "push"], ...), the return, and main's report.
GitPush ==
    /\ pc = "git_push"
    /\ \E rc \in {0, 1} :
          /\ git' = Append(git, [cmd |-> "push", returncode |-> rc])
          /\ pushResult' = IF rc # 0 THEN "PUSH FAILED" ELSE "PUSH OK"
    /\ pc' = "done"
    /\ UNCHANGED <<cfgFile, args, env, OpenAI, today, failure, vars_, client,
                   groups, out, calls, printed, file>>
    /\ UNCHANGED <<clampVars, linesVars>>

-----------------------------------------------------------------------------
(* Inputs *)

\* A configuration document.
Config(start_date, x_max_chars, tags) ==
    [start_date |-> start_date, killed_estimate |-> 1500,
     limits |-> [x_max_chars |-> x_max_chars],
     hashtags |-> [x |-> "#Iran", instagram |-> tags]]

ConfigFile(json) == [exists |-> TRUE, json |-> json]
ConfigFileMissing == [exists |-> FALSE, json |-> EmptyDict]

Arguments(ai, x_n, ig_n, write, push) ==
    [ai |-> ai, x_n |-> x_n, ig_n |-> ig_n, write |-> write, push |-> push]

FileAbsent == [exists |-> FALSE, written |-> FALSE, data |-> None]
FileFromEarlierRun == [exists |-> TRUE, written |-> FALSE, data |-> None]

Environments ==
    {EmptyDict, [OPENAI_API_KEY |-> ""], [OPENAI_API_KEY |-> "sk-test"]}

\* The state when main has parsed its arguments.
InitRun(cfgFiles, arguments, environments, imports, clocks, files) ==
    /\ pc = "load_json"
    /\ cfgFile \in cfgFiles
    /\ args \in arguments
    /\ env \in environments
    /\ OpenAI \in imports
    /\ today \in clocks
    /\ file \in files
    /\ failure = "" /\ vars_ = None /\ client = "None" /\ groups = NoGroups
    /\ out = None /\ calls = <<>> /\ printed = FALSE /\ git = <<>>
    /\ pushResult = ""
    /\ ClampIdle
    /\ LinesIdle

GridDates ==
    [year : 2023..(2022 + MaxYears), month : {1, 2, 3, 12}, day : {1, 28, 29, 31}]
CalendarDates ==
    {d \in [year : 2023..(2022 + MaxYears), month : 1..12, day : 1..31] :
        d.day <= DaysInMonth(d.year, d.month)}
StartDateTexts ==
    {strftime(d) : d \in GridDates} \cup {"2024-3-1", "11/01/2024", ""}
Counts == ((-1)..MaxCount) \cup {100}

\* compute_vars and the record, over start dates and clocks.
InitDays ==
    InitRun({ConfigFile(Config(s, 190, "#Iran")) : s \in StartDateTexts}
                \cup {ConfigFile([killed_estimate |-> 1500])},
            {Arguments(FALSE, 3, 3, FALSE, FALSE)},
            {EmptyDict}, {TRUE},
            GridDates \cap CalendarDates,
            {FileAbsent})

NextDays ==
    \/ LoadConfig
    \/ ComputeVars
    \/ BuildTemplatesX
    \/ BuildTemplatesIG
    \/ BuildBioReturn

SpecDays == InitDays /\ [][NextDays]_vars

\* build_output, over the requested counts, the credential and the import.
InitBuild ==
    InitRun({ConfigFile(Config("2024-01-01", 40, "#Iran")),
             ConfigFile([start_date |-> "2024-01-10"])},
            {Arguments(ai, x_n, ig_n, FALSE, FALSE) :
                ai \in BOOLEAN, x_n \in Counts, ig_n \in Counts},
            Environments, BOOLEAN,
            {[year |-> 2024, month |-> 1, day |-> 11]},
            {FileAbsent})

NextBuild ==
    \/ LoadConfig
    \/ ComputeVars
    \/ BuildTemplatesX
    \/ \E g \in DOMAIN NoGroups : Paraphrase(g)
    \/ BuildTemplatesIG
    \/ BuildBioReturn

SpecBuild == InitBuild /\ [][NextBuild]_vars

\* A whole run of main.
Init ==
    InitRun({ConfigFileMissing,
             ConfigFile([killed_estimate |-> 1500]),
             ConfigFile(Config("2024-02-30", 190, "#Iran")),
             ConfigFile(Config("2024-01-01", 190, "#Iran"))},
            {Arguments(ai, n, n, write, push) :
                ai \in BOOLEAN, n \in 1..MaxRunCount,
                write \in BOOLEAN, push \in BOOLEAN},
            {[OPENAI_API_KEY |-> "sk-test"]}, {TRUE},
            {[year |-> 2024, month |-> 1, day |-> 11]},
            {FileAbsent, FileFromEarlierRun})

Next ==
    \/ LoadConfig
    \/ ComputeVars
    \/ BuildTemplatesX
    \/ \E g \in DOMAIN NoGroups : Paraphrase(g)
    \/ BuildTemplatesIG
    \/ BuildBioReturn
    \/ PrintPreview
    \/ WriteFile
    \/ GitAdd
    \/ GitCommit
    \/ GitPush

Spec == Init /\ [][Next]_vars

-----------------------------------------------------------------------------
(* clamp_x on its own *)

ClampAlphabet == {"a", " ", "\n", ELLIPSIS}
ClampTexts == StringsUpTo(ClampAlphabet, MaxClampLen)
ClampBudgets == (-2)..(MaxClampLen + 1)

InitClamp ==
    /\ clampText \in ClampTexts
    /\ clampMax \in ClampBudgets
    /\ clampOut = <<>>
    /\ LinesIdle
    /\ RunIdle

\* clamp_x(text, max_chars), called on the caller's text.
ClampFirst ==
    /\ clampOut = <<>>
    /\ clampOut' = <<clamp_x(clampText, clampMax)>>
    /\ UNCHANGED <<clampText, clampMax, linesVars, runVars>>

\* clamp_x called on the text a previous call returned, with the same budget.
ClampAgain ==
    /\ Len(clampOut) = 1
    /\ clampOut' = Append(clampOut, clamp_x(clampOut[1], clampMax))
    /\ UNCHANGED <<clampText, clampMax, linesVars, runVars>>

NextClamp == ClampFirst \/ ClampAgain

SpecClamp == InitClamp /\ [][NextClamp]_vars

\* C1 as stated: whatever the text and the budget, the clamped text is at most
\* max_chars characters long.
C1_LengthWithinAnyBudget ==
    Len(clampOut) >= 1 => Len(clampOut[1]) <= clampMax

\* C1 as amended: for every text and every budget max_chars >= 1, the clamped
\* text is at most max_chars characters long.
C1_LengthWithinPositiveBudget ==
    (Len(clampOut) >= 1 /\ clampMax >= 1) => Len(clampOut[1]) <= clampMax

\* A text that did not fit a positive budget was truncated and marked.
C1_Witness ==
    /\ Len(clampOut) >= 1
    /\ clampMax >= 1
    /\ Len(collapse_whitespace(clampText)) > clampMax
    /\ Len(clampOut[1]) = clampMax
    /\ Ch(clampOut[1], Len(clampOut[1])) = ELLIPSIS

\* C2: for every text and every budget max_chars >= 1, clamping the clamped
\* text again with the same budget returns it unchanged.
C2_ClampIdempotent ==
    (Len(clampOut) = 2 /\ clampMax >= 1) => clampOut[2] = clampOut[1]

\* The first call truncated (dropping trailing whitespace before the marker)
\* and the second call has returned.
C2_Witness ==
    /\ Len(clampOut) = 2
    /\ clampMax >= 1
    /\ Len(collapse_whitespace(clampText)) > clampMax
    /\ Len(clampOut[1]) < clampMax
    /\ clampOut[1] # clampText
    /\ clampOut[2] = clampOut[1]

-----------------------------------------------------------------------------
(* clean_lines on its own *)

InitLines ==
    /\ linesText \in LinesTexts
    /\ linesN \in 0..MaxLinesN
    /\ linesUnread = <<>>
    /\ linesPc = "call"
    /\ linesRet = <<>>
    /\ ClampIdle
    /\ RunIdle

\* out = clean_lines(text, n)
CleanLinesCall ==
    /\ linesPc = "call"
    /\ linesRet' = clean_lines(linesText, linesN)
    /\ linesUnread' =
           clean_lines_loop(SplitOn(linesText, "\n"), <<>>, linesN).unread
    /\ linesPc' = "returned"
    /\ UNCHANGED <<linesText, linesN, clampVars, runVars>>

NextLines == CleanLinesCall

SpecLines == InitLines /\ [][NextLines]_vars

\* What the claim describes, stated without the code's loop: positions
\* instead of recursion.
FirstOutside(s, chars) ==
    CHOOSE i \in 1..(Len(s) + 1) :
        /\ i = Len(s) + 1 \/ Ch(s, i) \notin chars
        /\ \A j \in 1..(i - 1) : Ch(s, j) \in chars
LastOutside(s, chars) ==
    CHOOSE i \in 0..Len(s) :
        /\ i = 0 \/ Ch(s, i) \notin chars
        /\ \A j \in (i + 1)..Len(s) : Ch(s, j) \in chars
WithoutSurrounding(s, chars) ==
    SubSeq(s, FirstOutside(s, chars), LastOutside(s, chars))
WithoutLeading(s, chars) == SubSeq(s, FirstOutside(s, chars), Len(s))
\* A line as the code leaves it: list markers go from both ends.
StrippedLine(raw) ==
    WithoutSurrounding(
        WithoutLeading(
            WithoutSurrounding(WithoutSurrounding(raw, Whitespace), ListMarkers),
            EnumerationChars),
        Whitespace)
\* A line as the claim words it: only leading list markers go.
LeadingStrippedLine(raw) ==
    WithoutSurrounding(
        WithoutLeading(
            WithoutLeading(WithoutSurrounding(raw, Whitespace), ListMarkers),
            EnumerationChars),
        Whitespace)
Breaks(text) == {i \in 1..Len(text) : Ch(text, i) = "\n"}
LineCount(text) == Cardinality(Breaks(text)) + 1
\* The k-th line of the text, k = 1 .. number of line breaks + 1.
LineOf(text, k) ==
    LET breaks == Breaks(text)
        before == {i \in breaks : Cardinality({j \in breaks : j <= i}) = k - 1}
        after == {i \in breaks : Cardinality({j \in breaks : j <= i}) = k}
        from == IF before = {} THEN 1 ELSE (CHOOSE i \in before : TRUE) + 1
        to == IF after = {} THEN Len(text) ELSE (CHOOSE i \in after : TRUE) - 1
    IN  SubSeq(text, from, to)
\* The lines of the text, each stripped by F.
StrippedLinesBy(F(_), text) == [k \in 1..LineCount(text) |-> F(LineOf(text, k))]
\* The first n lines that F leaves non-empty, stripped, in the order of the text.
ExpectedLinesBy(F(_), text, n) ==
    LET stripped == StrippedLinesBy(F, text)
        kept == {k \in DOMAIN stripped : stripped[k] # ""}
    IN  [j \in 1..Min(n, Cardinality(kept)) |->
            stripped[CHOOSE k \in kept : Cardinality({h \in kept : h <= k}) = j]]
ExpectedLines(text, n) == ExpectedLinesBy(StrippedLine, text, n)
\* The lines that are non-empty once stripped.
KeptLines(text) ==
    LET stripped == StrippedLinesBy(StrippedLine, text)
    IN  {k \in DOMAIN stripped : stripped[k] # ""}

\* The number of lines read when the n-th kept line has been read.
LinesRead(text, n) ==
    LET kept == KeptLines(text)
    IN  IF n >= 1 /\ Cardinality(kept) >= n
        THEN CHOOSE k \in kept : Cardinality({h \in kept : h <= k}) = n
        ELSE LineCount(text)

\* C4 as stated: clean_lines(text, n) returns, in the order of the reply,
\* the first n lines that are non-empty once surrounding whitespace, leading
\* list markers and a leading enumeration prefix are stripped, each so
\* stripped.
C4_LeadingMarkersOnly ==
    linesPc = "returned" =>
        linesRet = ExpectedLinesBy(LeadingStrippedLine, linesText, linesN)

\* C4 as amended: for a count n >= 0, clean_lines(text, n) returns, in the
\* order of the reply, the first n lines that are non-empty once surrounding
\* whitespace, list markers at both ends of the line and then a leading
\* enumeration prefix are stripped, each so stripped; it returns fewer when
\* the reply has fewer, never an empty element and never more than n; for
\* n >= 1 it reads no line after the n-th is collected; and the example of
\* the spec yields <<"Foo", "Bar", "Baz">>.
C4_CleanLines ==
    linesPc = "returned" =>
        /\ linesRet = ExpectedLines(linesText, linesN)
        /\ Len(linesRet) <= linesN
        /\ \A j \in 1..Len(linesRet) : linesRet[j] # ""
        /\ (linesText = LinesExample /\ linesN = 3)
               => linesRet = <<"Foo", "Bar", "Baz">>
        /\ linesN >= 1 =>
               Len(linesUnread) = LineCount(linesText) - LinesRead(linesText, linesN)

\* The call returned n lines, one of which lost a list marker at its end,
\* from a reply that had a line to discard and lines left unread.
C4_Witness ==
    /\ linesPc = "returned"
    /\ linesN >= 2
    /\ Len(linesRet) = linesN
    /\ linesUnread # <<>>
    /\ \E k \in 1..LinesRead(linesText, linesN) :
          /\ StrippedLine(LineOf(linesText, k)) # ""
          /\ StrippedLine(LineOf(linesText, k)) # LeadingStrippedLine(LineOf(linesText, k))
    /\ \E k \in 1..LinesRead(linesText, linesN) : k \notin KeptLines(linesText)

-----------------------------------------------------------------------------
(* Claims about compute_vars and the record's metadata *)

Before(a, b) ==
    \/ a.year < b.year
    \/ a.year = b.year /\ a.month < b.month
    \/ a.year = b.year /\ a.month = b.month /\ a.day < b.day

\* The calendar dates from a (included) to b (excluded).
DatesFrom(a, b) == {d \in CalendarDates : ~ Before(d, a) /\ Before(d, b)}

VarsComputed == pc \in {"build_output", "ig_templates", "bio", "print"}

\* C3: once compute_vars has returned, days is the number of whole days from
\* the start date to today when the start date is on or before today (so
\* it is >= 0), and exactly 0 when the start date is after today; the record
\* carries the same value as generated.days_since_start.
C3_DaysSinceStart ==
    VarsComputed =>
        LET start == parse_yyyy_mm_dd(Cfg["start_date"])
        IN  /\ ~ Before(today, start) =>
                  /\ vars_.days >= 0
                  /\ vars_.days = Cardinality(DatesFrom(start, today))
            /\ Before(today, start) => vars_.days = 0
            /\ out # None => out.generated.days_since_start = vars_.days

\* A record was built for a start date after today.
C3_Witness ==
    /\ pc = "print"
    /\ Before(today, parse_yyyy_mm_dd(Cfg["start_date"]))
    /\ out.generated.days_since_start = 0

-----------------------------------------------------------------------------
(* Claims about build_output *)

GroupNames == DOMAIN NoGroups
TemplatesOf ==
    [x_short |-> X_SHORT_TEMPLATES, x_factual |-> X_FACTUAL_TEMPLATES,
     x_cta |-> X_CTA_TEMPLATES, ig_caption |-> IG_CAPTION_TEMPLATES,
     ig_story |-> IG_STORY_TEMPLATES]

\* The message groups as the record holds them.
RecordGroup(g) ==
    CASE g = "x_short" -> out.messages.x.short
      [] g = "x_factual" -> out.messages.x.factual
      [] g = "x_cta" -> out.messages.x.cta
      [] g = "ig_caption" -> out.messages.instagram.caption
      [] g = "ig_story" -> out.messages.instagram.story

\* The successful service calls made for group g.
RepliesFor(g) ==
    {k \in 1..Len(calls) : calls[k].group = g /\ ~ calls[k].outcome.raised}

C6_BioCountInRange ==
    out # None =>
        /\ Len(out.messages.bio) \in 3..6
        /\ out.messages.bio =
               [i \in 1..Len(BIO_TEMPLATES) |-> fill(BIO_TEMPLATES[i], vars_)]

\* A record built on the paraphrase path for --ig-n 1 and another --x-n.
C6_Witness ==
    /\ out # None
    /\ args.ig_n = 1 /\ args.x_n = 100
    /\ calls # <<>>
    /\ Len(out.messages.bio) = 3

WithoutTrailingWhitespace(s) == SubSeq(s, 1, LastOutside(s, Whitespace))

\* C7: once the caption group is paraphrased, its i-th element is the i-th
\* candidate parsed from the reply, unchanged, when that candidate contains
\* the configured Instagram hashtag text, and otherwise the candidate
\* without trailing whitespace followed by a blank line and the hashtag
\* text; either way it contains the hashtag text.
C7_CaptionHashtags ==
    \A k \in RepliesFor("ig_caption") :
        LET candidates == ExpectedLines(calls[k].outcome.text, args.ig_n)
            caption == groups.ig_caption
        IN  /\ Len(caption) = Len(candidates)
            /\ \A i \in 1..Len(candidates) :
                  /\ Contains(candidates[i], hashtags_ig) => caption[i] = candidates[i]
                  /\ ~ Contains(candidates[i], hashtags_ig) =>
                         caption[i] = WithoutTrailingWhitespace(candidates[i])
                                          \o "\n\n" \o hashtags_ig
                  /\ Contains(caption[i], hashtags_ig)

\* A record whose captions are one candidate that lacked the hashtags and
\* one that had them.
C7_Witness ==
    /\ out # None
    /\ hashtags_ig = "#Iran"
    /\ Len(out.messages.instagram.caption) >= 2
    /\ out.messages.instagram.caption[1] = "Alpha beta gamma delta\n\n#Iran"
    /\ out.messages.instagram.caption[2] = "Beta #Iran"

\* What the templates alone make of a group: the first n renderings for
\* n >= 0, the X ones clamped; for a negative n Python's slice of the
\* Instagram lists drops their last -n elements and gen_from_templates
\* returns nothing.
TemplateOutputLen(g) ==
    LET n == CountOf(g)
        available == Len(TemplatesOf[g])
    IN  IF n >= 0 THEN Min(n, available)
        ELSE IF KindOf[g] = "x" THEN 0 ELSE Max(0, available + n)
TemplateOutputAt(g, i) ==
    IF KindOf[g] = "x" THEN clamp_x(fill(TemplatesOf[g][i], vars_), max_x)
    ELSE IF g = "ig_caption"
         THEN fill(TemplatesOf[g][i], WithHashtags(vars_, hashtags_ig))
         ELSE fill(TemplatesOf[g][i], vars_)
TemplateOutput(g) == [i \in 1..TemplateOutputLen(g) |-> TemplateOutputAt(g, i)]

ClientAvailable ==
    /\ args.ai
    /\ "OPENAI_API_KEY" \in DOMAIN env
    /\ env["OPENAI_API_KEY"] # ""
    /\ OpenAI

\* C9: the service is called only when AI is requested, the credential is
\* set and the client library is imported.  Otherwise build_output raises
\* nothing and every group of the record is the template output.  With a
\* client, the groups the templates left non-empty are paraphrased in order,
\* one call each, for the group's first template output and the platform's
\* count, and each holds what the adapter made of its reply.
C9_ParaphraseOnlyWithClient ==
    /\ calls # <<>> => ClientAvailable
    /\ (~ ClientAvailable /\ vars_ # None) => failure = ""
    /\ (~ ClientAvailable /\ out # None) =>
           \A g \in GroupNames : RecordGroup(g) = TemplateOutput(g)
    /\ (ClientAvailable /\ out # None) =>
           LET called == {g \in GroupNames : TemplateOutputLen(g) > 0}
           IN  /\ Len(calls) = Cardinality(called)
               /\ \A g \in GroupNames \ called : RecordGroup(g) = <<>>
               /\ \A g \in called :
                     \E k \in RepliesFor(g) :
                         LET c == calls[k]
                             made == ai_paraphrase_variants(
                                         c.outcome.text, CountOf(g), max_x, KindOf[g])
                         IN  /\ c.base_text = TemplateOutputAt(g, 1)
                             /\ c.n = CountOf(g)
                             /\ c.kind = KindOf[g]
                             /\ RecordGroup(g) =
                                    IF g = "ig_caption"
                                    THEN assemble_captions(made, hashtags_ig)
                                    ELSE made
               /\ \A j, k \in 1..Len(calls) :
                     (j < k /\ calls[j].kind # "x") => calls[k].kind # "x"

\* AI was requested with a credential but the client library is missing: the
\* record is built from the templates without a call.
C9_Witness ==
    /\ out # None
    /\ args.ai
    /\ Get(env, "OPENAI_API_KEY", "") # ""
    /\ ~ OpenAI
    /\ calls = <<>>
    /\ args.x_n = 2
    /\ Len(out.messages.x.short) = 2

-----------------------------------------------------------------------------
(* Claims about a whole run *)

\* C8: when a step fails (the configuration file or its start date is
\* missing, the start date is malformed, a template field is undefined, or
\* the service raises for any group) no record is returned, nothing is
\* printed and nothing is written; whatever is printed or written is the
\* whole record, made after every group was settled.
C8_AllOrNothing ==
    /\ failure # "" =>
           /\ out = None
           /\ ~ printed
           /\ ~ file.written
           /\ pc \in {"raised", "exited"}
    /\ (printed \/ file.written) =>
           /\ out # None
           /\ \A g \in GroupNames : RecordGroup(g) = groups[g]
           /\ Len(out.messages.bio) = 3
    /\ file.written => file.data = out /\ printed

\* The service raised for the third group after two groups were paraphrased.
C8_Witness ==
    /\ failure = "ServiceCallFailure: x_cta"
    /\ Len(calls) = 3
    /\ ~ calls[1].outcome.raised /\ ~ calls[2].outcome.raised
    /\ groups.x_short # <<>>
    /\ out = None /\ ~ printed /\ ~ file.written

NothingToCommitReports ==
    { [cmd |-> "commit", returncode |-> 1,
       stdout |-> "On branch main\nnothing to commit, working tree clean", stderr |-> ""],
      [cmd |-> "commit", returncode |-> 1, stdout |-> "", stderr |-> "Nothing to commit"] }

\* C10: git add, git commit and git push run in that order, each at most
\* once, only under --write --push and only once the file holds the record,
\* which no later step changes.  The commit runs only after a successful
\* add; the push runs only after a commit that succeeded or reported nothing
\* to commit, and then always; a failed add, any other failed commit and a
\* rejected push each end the step as failed, and only a successful push
\* ends it as ok.
C10_PublishSequence ==
    LET cmds == [i \in 1..Len(git) |-> git[i].cmd]
        commitPassed == git[2].returncode = 0 \/ git[2] \in NothingToCommitReports
    IN  /\ cmds \in {<<>>, <<"add">>, <<"add", "commit">>, <<"add", "commit", "push">>}
        /\ git # <<>> =>
               /\ args.write /\ args.push
               /\ file = [exists |-> TRUE, written |-> TRUE, data |-> out]
               /\ out # None
        /\ Len(git) >= 2 => git[1].returncode = 0
        /\ Len(git) = 3 => commitPassed
        /\ pushResult # "" => pc = "done" /\ git # <<>>
        /\ (pc = "done" /\ args.write /\ args.push) =>
               /\ git # <<>>
               /\ git[1].returncode # 0 => Len(git) = 1
               /\ git[1].returncode = 0 => Len(git) >= 2
               /\ (Len(git) >= 2 /\ commitPassed) => Len(git) = 3
               /\ pushResult =
                      IF Len(git) = 3 /\ git[3].returncode = 0
                      THEN "PUSH OK" ELSE "PUSH FAILED"

\* Nothing to commit, the push attempted and rejected, the file still written.
C10_Witness ==
    /\ pc = "done"
    /\ Len(git) = 3
    /\ git[2] \in NothingToCommitReports
    /\ git[3].returncode # 0
    /\ pushResult = "PUSH FAILED"
    /\ file.written /\ file.data = out

====
